---- MODULE Spec2Model ----
(***************************************************************************)
(* Verification model of the HCI decoding core of veqox/ble:               *)
(*   utils::reader::Reader      (crates/utils/src/reader.rs)               *)
(*   utils::slice::as_slice     (crates/utils/src/slice.rs)                *)
(*   HCIPacket::from_buf        (crates/ble/src/hci/packet.rs)             *)
(*   HCIEvent::from_packet      (crates/ble/src/hci/event.rs)              *)
(*                                                                         *)
(* Conventions.  A byte buffer is a sequence of naturals below 256; the    *)
(* Rust index i (0-based) is the TLA+ index i + 1.  Option<T> is a record  *)
(* with a field "some".  A u8 or u16 is an integer; a wider scalar is the  *)
(* sequence of its 16-bit limbs, least significant first, because the      *)
(* integers of the model checker are 32 bits wide.  A panic of the Rust    *)
(* code (slice index out of range, usize underflow, a violated unsafe      *)
(* precondition caught by the debug checks) sets the variable panicked and *)
(* stops the program.                                                      *)
(***************************************************************************)
EXTENDS Integers, Sequences, FiniteSets, TLC

VARIABLES buf, addr, pos, last, panicked, packet, logs, event, iter, cursors

vars == <<buf, addr, pos, last, panicked, packet, logs, event, iter, cursors>>

\* ------------------------------------------------------------------------
\* Bounds of the model
\* ------------------------------------------------------------------------

\* longest buffer handed to a Reader in the cursor specification
MaxBufLen == 17

\* longest raw transport buffer handed to HCIPacket::from_buf
MaxFrameLen == 7

\* start addresses (modulo 16) of the buffer a Reader borrows
Addrs == {0, 1}

\* first bytes of the generated buffer contents
Seeds == {0, 201}

\* byte values of the raw transport buffers after the tag byte
FrameBytes == {0, 1, 2, 167}

\* tag bytes of the raw transport buffers
TagBytes == {0, 1, 2, 3, 4, 5, 6, 255}

\* most records of a generated Advertising Report payload
MaxReports == 3

\* most entries of a generated Advertising Data block
MaxEntries == 2

\* most calls on one Writer
MaxWrites == 3

\* longest of the short buffers a Writer is built over
MaxWriteBuf == 5

\* most operations on two cursors together
MaxCursorOps == 3

\* most calls of next() on one iterator
MaxCalls == 5

\* most parameter bytes of a generated event packet
MaxParamLen == 20

\* length of the event parameter lists that are enumerated byte by byte
MaxShortParams == 4

\* byte values of the enumerated event parameter lists
EventBytes == {0, 1, 19}

\* what a build does with a misaligned core::slice::from_raw_parts
\* (undefined behaviour): hand out the view, or abort in the debug check
UBOutcomes == {"view", "abort"}

\* ------------------------------------------------------------------------
\* Values
\* ------------------------------------------------------------------------

None == [some |-> FALSE]

Some(v) == [some |-> TRUE, val |-> v]

\* a buffer of n distinct bytes, the first one being seed
Pattern(n, seed) == [i \in 1..n |-> (seed + 37 * (i - 1)) % 256]

RECURSIVE SeqsUpTo(_, _)
\* all sequences over S of length at most n
SeqsUpTo(S, n) ==
    IF n = 0 THEN {<<>>}
    ELSE LET shorter == SeqsUpTo(S, n - 1)
         IN  shorter \cup {Append(s, x) : s \in {t \in shorter : Len(t) = n - 1}, x \in S}

RECURSIVE BitAnd(_, _)
\* a & b on naturals
BitAnd(a, b) ==
    IF a = 0 \/ b = 0 THEN 0
    ELSE 2 * BitAnd(a \div 2, b \div 2) + (IF a % 2 = 1 /\ b % 2 = 1 THEN 1 ELSE 0)

RECURSIVE Shr(_, _)
\* a >> n on naturals
Shr(a, n) == IF n = 0 THEN a ELSE Shr(a \div 2, n - 1)

\* ------------------------------------------------------------------------
\* utils::reader::Reader
\* ------------------------------------------------------------------------

\* outcome of one Reader operation: the new position, the returned value,
\* the buffer indices it touched (0-based) and whether it panicked
Outcome(p, ret, acc, fault) == [pos |-> p, ret |-> ret, acc |-> acc, fault |-> fault]

\* Reader::new
Reader_new(b) == [buf |-> b, pos |-> 0]

\* Reader::remaining; the usize subtraction underflows when pos > buf.len()
remaining(b, p) == Len(b) - p

\* &self.buf[lo..hi]
Index(b, lo, hi) == SubSeq(b, lo + 1, hi)

\* u8/u16/.../u128::from_le_bytes
from_le_bytes(bytes) ==
    IF Len(bytes) = 1 THEN bytes[1]
    ELSE IF Len(bytes) = 2 THEN bytes[1] + 256 * bytes[2]
    ELSE [i \in 1..(Len(bytes) \div 2) |-> bytes[2 * i - 1] + 256 * bytes[2 * i]]

read_u8_slice_exact(b, p, len) ==
    IF p > Len(b) THEN Outcome(p, None, {}, TRUE)
    ELSE IF remaining(b, p) <= len THEN Outcome(p, None, {}, FALSE)
    ELSE Outcome(p + len, Some(Index(b, p, p + len)), p..(p + len - 1), FALSE)

read_u8_slice_past(b, p, len) ==
    IF p > Len(b) THEN Outcome(p, None, {}, TRUE)
    ELSE IF remaining(b, p) + 1 < len THEN Outcome(p, None, {}, FALSE)
    ELSE IF p + len > Len(b) THEN Outcome(p, None, p..(p + len - 1), TRUE)
    ELSE Outcome(p + len, Some(Index(b, p, p + len)), p..(p + len - 1), FALSE)

\* Reader::read_u8_slice
read_u8_slice(b, p, len) ==
    IF p > Len(b) THEN Outcome(p, None, {}, TRUE)
    ELSE IF remaining(b, p) < len THEN Outcome(p, None, {}, FALSE)
    ELSE IF p + len > Len(b) THEN Outcome(p, None, p..(p + len - 1), TRUE)
    ELSE Outcome(p + len, Some(Index(b, p, p + len)), p..(p + len - 1), FALSE)

\* Reader::read_u8, read_u16, read_u32, read_u64, read_u128 (size = 1 .. 16)
read_scalar(b, p, size) ==
    LET r == read_u8_slice(b, p, size)
    IN  IF r.ret.some THEN [r EXCEPT !.ret = Some(from_le_bytes(r.ret.val))] ELSE r

read_u8(b, p) == read_scalar(b, p, 1)

read_u16(b, p) == read_scalar(b, p, 2)

read_u32(b, p) == read_scalar(b, p, 4)

read_u64(b, p) == read_scalar(b, p, 8)

read_u128(b, p) == read_scalar(b, p, 16)

\* utils::slice::as_slice::<T, u8> with size_of::<T>() = w: the elements
\* are the successive groups of w bytes of the slice
as_slice(s, w) ==
    IF Len(s) % w # 0 THEN None
    ELSE Some([i \in 1..(Len(s) \div w) |-> SubSeq(s, (i - 1) * w + 1, i * w)])

\* Reader::read_u16_slice, read_u32_slice, read_u64_slice, read_u128_slice
\* (w = 2 .. 16).  a is the address of the first byte of the buffer; when
\* the slice does not start at a multiple of w, from_raw_parts is undefined
\* behaviour and ub is what the build does with it.
read_wide_slice(b, p, a, len, w, ub) ==
    IF p > Len(b) THEN Outcome(p, None, {}, TRUE)
    ELSE IF remaining(b, p) < len THEN Outcome(p, None, {}, FALSE)
    ELSE IF p + len > Len(b) THEN Outcome(p, None, p..(p + len - 1), TRUE)
    ELSE LET slice == as_slice(Index(b, p, p + len), w)
         IN  IF ~slice.some THEN Outcome(p, None, p..(p + len - 1), FALSE)
             ELSE IF (a + p) % w # 0 /\ ub = "abort"
                  THEN Outcome(p, None, p..(p + len - 1), TRUE)
             ELSE Outcome(p + len, slice, p..(p + len - 1), FALSE)

seek_past_end(b, p, q) ==
    IF q > Len(b) + 1 THEN Outcome(p, None, {}, FALSE)
    ELSE Outcome(q, Some(<<>>), {}, FALSE)

seek_before_end(b, p, q) ==
    IF q >= Len(b) THEN Outcome(p, None, {}, FALSE)
    ELSE Outcome(q, Some(<<>>), {}, FALSE)

\* Reader::seek; Ok(()) is Some(<<>>), Err(BufferOverflow) is None
seek(b, p, q) ==
    IF q > Len(b) THEN Outcome(p, None, {}, FALSE)
    ELSE Outcome(q, Some(<<>>), {}, FALSE)

\* ------------------------------------------------------------------------
\* The cursor as a state machine: one Reader over one buffer, any sequence
\* of its operations with any arguments
\* ------------------------------------------------------------------------

NoOp == [op |-> "new", arg |-> 0, pos0 |-> 0, ret |-> None, acc |-> {}]

\* no further cursors have been built
NoCursors == <<>>

\* no iterator has been built
NoIter == [kind |-> "none", num_reports |-> 0, items |-> <<>>, ended |-> FALSE, calls |-> 0]

ReaderBufs == {Pattern(n, s) : n \in 0..MaxBufLen, s \in Seeds}

ReadLens == 0..(MaxBufLen + 1)

SeekTargets == 0..(MaxBufLen + 2)

InitReader ==
    /\ buf \in ReaderBufs
    /\ addr \in Addrs
    /\ pos = Reader_new(buf).pos
    /\ last = NoOp
    /\ panicked = FALSE
    /\ packet = None
    /\ logs = 0
    /\ event = None
    /\ iter = NoIter
    /\ cursors = NoCursors

\* the effect of one Reader operation op(arg) with outcome r
Apply(op, arg, r) ==
    /\ ~panicked
    /\ pos' = r.pos
    /\ last' = [op |-> op, arg |-> arg, pos0 |-> pos, ret |-> r.ret, acc |-> r.acc]
    /\ panicked' = r.fault
    /\ UNCHANGED <<buf, addr, packet, logs, event, iter, cursors>>

ReadU8 == Apply("read_u8", 1, read_u8(buf, pos))

ReadU16 == Apply("read_u16", 2, read_u16(buf, pos))

ReadU32 == Apply("read_u32", 4, read_u32(buf, pos))

ReadU64 == Apply("read_u64", 8, read_u64(buf, pos))

ReadU128 == Apply("read_u128", 16, read_u128(buf, pos))

ReadU8Slice == \E n \in ReadLens : Apply("read_u8_slice", n, read_u8_slice(buf, pos, n))

ReadU16Slice ==
    \E n \in ReadLens, ub \in UBOutcomes :
        Apply("read_u16_slice", n, read_wide_slice(buf, pos, addr, n, 2, ub))

ReadU32Slice ==
    \E n \in ReadLens, ub \in UBOutcomes :
        Apply("read_u32_slice", n, read_wide_slice(buf, pos, addr, n, 4, ub))

ReadU64Slice ==
    \E n \in ReadLens, ub \in UBOutcomes :
        Apply("read_u64_slice", n, read_wide_slice(buf, pos, addr, n, 8, ub))

ReadU128Slice ==
    \E n \in ReadLens, ub \in UBOutcomes :
        Apply("read_u128_slice", n, read_wide_slice(buf, pos, addr, n, 16, ub))

Seek == \E q \in SeekTargets : Apply("seek", q, seek(buf, pos, q))

Remaining ==
    Apply("remaining", 0, Outcome(pos, Some(remaining(buf, pos)), {}, pos > Len(buf)))

NextReader ==
    \/ ReadU8
    \/ ReadU16
    \/ ReadU32
    \/ ReadU64
    \/ ReadU128
    \/ ReadU8Slice
    \/ ReadU16Slice
    \/ ReadU32Slice
    \/ ReadU64Slice
    \/ ReadU128Slice
    \/ Seek
    \/ Remaining

SpecReader == InitReader /\ [][NextReader]_vars

\* ------------------------------------------------------------------------
\* HCIPacket::from_buf
\* ------------------------------------------------------------------------

COMMAND_PACKET_TYPE == 1

ACL_DATA_PACKET_TYPE == 2

SYNCHRONOUS_DATA_PACKET_TYPE == 3

EVENT_PACKET_TYPE == 4

ISO_DATA_PACKET_TYPE == 5

\* result of from_buf: the returned Option<HCIPacket>, the number of
\* log::warn! calls, the final position of its reader, the indices read
Framed(ret, warns, p, acc, fault) ==
    [ret |-> ret, logs |-> warns, pos |-> p, acc |-> acc, fault |-> fault]

\* HCICommandPacket::new; &buf[..len] panics when len > buf.len()
HCICommandPacket_new(opcode, len, b) ==
    [kind |-> "Command", opcode |-> opcode, len |-> len, parameters |-> Index(b, 0, len)]

\* HCIEventPacket::new; &buf[..len] panics when len > buf.len()
HCIEventPacket_new(evcode, len, b) ==
    [kind |-> "Event", evcode |-> evcode, len |-> len, parameters |-> Index(b, 0, len)]

\* HCIACLDataPacket::new; &buf[..len] panics when len > buf.len()
HCIACLDataPacket_new(handle, packet_boundary_flag, broadcast_flag, len, b) ==
    [kind |-> "ACLData", handle |-> handle,
     packet_boundary_flag |-> packet_boundary_flag,
     broadcast_flag |-> broadcast_flag, len |-> len, data |-> Index(b, 0, len)]

unknown_tail(b, p) == [kind |-> "Unkown", raw |-> Index(b, p, Len(b))]

\* HCIPacket::Unkown(buf) built after the tag byte was read (reader at p)
Unkown(b, p) == [kind |-> "Unkown", raw |-> b]

from_buf_command_len_first(b, p) ==
    LET len == read_u8(b, p)
        opcode == read_u16(b, len.pos)
        data == read_u8_slice(b, opcode.pos, len.ret.val)
    IN  IF ~len.ret.some THEN Framed(None, 0, len.pos, len.acc, len.fault)
        ELSE IF ~opcode.ret.some
             THEN Framed(None, 0, opcode.pos, len.acc \cup opcode.acc, opcode.fault)
        ELSE IF ~data.ret.some
             THEN Framed(None, 0, data.pos, len.acc \cup opcode.acc \cup data.acc, data.fault)
        ELSE Framed(Some(HCICommandPacket_new(opcode.ret.val, len.ret.val, data.ret.val)),
                    0, data.pos, len.acc \cup opcode.acc \cup data.acc,
                    len.ret.val > Len(data.ret.val))

\* from_buf, COMMAND_PACKET_TYPE arm, the reader being at p
from_buf_command(b, p) ==
    LET opcode == read_u16(b, p)
        len == read_u8(b, opcode.pos)
        data == read_u8_slice(b, len.pos, len.ret.val)
    IN  IF ~opcode.ret.some THEN Framed(None, 0, opcode.pos, opcode.acc, opcode.fault)
        ELSE IF ~len.ret.some
             THEN Framed(None, 0, len.pos, opcode.acc \cup len.acc, len.fault)
        ELSE IF ~data.ret.some
             THEN Framed(None, 0, data.pos, opcode.acc \cup len.acc \cup data.acc, data.fault)
        ELSE Framed(Some(HCICommandPacket_new(opcode.ret.val, len.ret.val, data.ret.val)),
                    0, data.pos, opcode.acc \cup len.acc \cup data.acc,
                    len.ret.val > Len(data.ret.val))

\* from_buf, ACL_DATA_PACKET_TYPE arm, the length read from one byte
from_buf_acl_short_len(b, p) ==
    LET header == read_u16(b, p)
        handle == Shr(BitAnd(header.ret.val, 65520), 4)
        flags == BitAnd(header.ret.val, 15)
        packet_boundary_flag == Shr(BitAnd(flags, 12), 2)
        broadcast_flag == BitAnd(flags, 3)
        len == read_u8(b, header.pos)
        data == read_u8_slice(b, len.pos, len.ret.val)
    IN  IF ~header.ret.some THEN Framed(None, 0, header.pos, header.acc, header.fault)
        ELSE IF ~len.ret.some
             THEN Framed(None, 0, len.pos, header.acc \cup len.acc, len.fault)
        ELSE IF ~data.ret.some
             THEN Framed(None, 0, data.pos, header.acc \cup len.acc \cup data.acc, data.fault)
        ELSE Framed(Some(HCIACLDataPacket_new(handle, packet_boundary_flag, broadcast_flag,
                                              len.ret.val, data.ret.val)),
                    0, data.pos, header.acc \cup len.acc \cup data.acc,
                    len.ret.val > Len(data.ret.val))

\* from_buf, ACL_DATA_PACKET_TYPE arm, the reader being at p
from_buf_acl(b, p) ==
    LET header == read_u16(b, p)
        handle == Shr(BitAnd(header.ret.val, 65520), 4)
        flags == BitAnd(header.ret.val, 15)
        packet_boundary_flag == Shr(BitAnd(flags, 12), 2)
        broadcast_flag == BitAnd(flags, 3)
        len == read_u16(b, header.pos)
        data == read_u8_slice(b, len.pos, len.ret.val)
    IN  IF ~header.ret.some THEN Framed(None, 0, header.pos, header.acc, header.fault)
        ELSE IF ~len.ret.some
             THEN Framed(None, 0, len.pos, header.acc \cup len.acc, len.fault)
        ELSE IF ~data.ret.some
             THEN Framed(None, 0, data.pos, header.acc \cup len.acc \cup data.acc, data.fault)
        ELSE Framed(Some(HCIACLDataPacket_new(handle, packet_boundary_flag, broadcast_flag,
                                              len.ret.val, data.ret.val)),
                    0, data.pos, header.acc \cup len.acc \cup data.acc,
                    len.ret.val > Len(data.ret.val))

from_buf_event_len_first(b, p) ==
    LET len == read_u8(b, p)
        evcode == read_u8(b, len.pos)
        data == read_u8_slice(b, evcode.pos, len.ret.val)
    IN  IF ~len.ret.some THEN Framed(None, 0, len.pos, len.acc, len.fault)
        ELSE IF ~evcode.ret.some
             THEN Framed(None, 0, evcode.pos, len.acc \cup evcode.acc, evcode.fault)
        ELSE IF ~data.ret.some
             THEN Framed(None, 0, data.pos, len.acc \cup evcode.acc \cup data.acc, data.fault)
        ELSE Framed(Some(HCIEventPacket_new(evcode.ret.val, len.ret.val, data.ret.val)),
                    0, data.pos, len.acc \cup evcode.acc \cup data.acc,
                    len.ret.val > Len(data.ret.val))

\* from_buf, EVENT_PACKET_TYPE arm, the reader being at p
from_buf_event(b, p) ==
    LET evcode == read_u8(b, p)
        len == read_u8(b, evcode.pos)
        data == read_u8_slice(b, len.pos, len.ret.val)
    IN  IF ~evcode.ret.some THEN Framed(None, 0, evcode.pos, evcode.acc, evcode.fault)
        ELSE IF ~len.ret.some
             THEN Framed(None, 0, len.pos, evcode.acc \cup len.acc, len.fault)
        ELSE IF ~data.ret.some
             THEN Framed(None, 0, data.pos, evcode.acc \cup len.acc \cup data.acc, data.fault)
        ELSE Framed(Some(HCIEventPacket_new(evcode.ret.val, len.ret.val, data.ret.val)),
                    0, data.pos, evcode.acc \cup len.acc \cup data.acc,
                    len.ret.val > Len(data.ret.val))

\* HCIPacket::from_buf
from_buf(b) ==
    LET reader == Reader_new(b)
        tag == read_u8(b, reader.pos)
        packet_type == tag.ret.val
        arm == CASE packet_type = COMMAND_PACKET_TYPE -> from_buf_command(b, tag.pos)
                 [] packet_type = ACL_DATA_PACKET_TYPE -> from_buf_acl(b, tag.pos)
                 [] packet_type = SYNCHRONOUS_DATA_PACKET_TYPE ->
                        Framed(Some(Unkown(b, tag.pos)), 1, tag.pos, {}, FALSE)
                 [] packet_type = EVENT_PACKET_TYPE -> from_buf_event(b, tag.pos)
                 [] packet_type = ISO_DATA_PACKET_TYPE ->
                        Framed(Some(Unkown(b, tag.pos)), 1, tag.pos, {}, FALSE)
                 [] OTHER -> Framed(Some(Unkown(b, tag.pos)), 1, tag.pos, {}, FALSE)
    IN  IF ~tag.ret.some THEN Framed(None, 0, tag.pos, tag.acc, tag.fault)
        ELSE [arm EXCEPT !.acc = @ \cup tag.acc]

\* ------------------------------------------------------------------------
\* The framer as a state machine: one raw buffer, one call of from_buf
\* ------------------------------------------------------------------------

FrameBufs ==
    {<<>>} \cup {<<t>> \o s : t \in TagBytes, s \in SeqsUpTo(FrameBytes, MaxFrameLen - 1)}

InitFrame ==
    /\ buf \in FrameBufs
    /\ addr = 0
    /\ pos = 0
    /\ last = NoOp
    /\ panicked = FALSE
    /\ packet = None
    /\ logs = 0
    /\ event = None
    /\ iter = NoIter
    /\ cursors = NoCursors

FromBuf ==
    /\ ~panicked
    /\ last.op = "new"
    /\ LET r == from_buf(buf)
       IN  /\ packet' = r.ret
           /\ logs' = logs + r.logs
           /\ pos' = r.pos
           /\ panicked' = r.fault
           /\ last' = [op |-> "from_buf", arg |-> 0, pos0 |-> 0, ret |-> None, acc |-> r.acc]
    /\ UNCHANGED <<buf, addr, event, iter, cursors>>

NextFrame == FromBuf

SpecFrame == InitFrame /\ [][NextFrame]_vars

\* ------------------------------------------------------------------------
\* HCIEvent::from_packet
\* ------------------------------------------------------------------------

\* HCIEventCode
EVCODE_DisconnectionComplete == 5

EVCODE_CommandComplete == 14

EVCODE_LEMetaEvent == 62

\* SubeventCode: the handled codes
SUBEVCODE_ConnectionComplete == 1

SUBEVCODE_AdvertisingReport == 2

SUBEVCODE_ConnectionUpdateComplete == 3

\* SubeventCode: every code the enum names (0x01-0x23 and 0x26-0x35)
SubeventCodes == (1..35) \cup (38..53)

\* HCIEventCode: every code the enum names
EventCodes == {EVCODE_DisconnectionComplete, EVCODE_CommandComplete, EVCODE_LEMetaEvent}

\* a value of a #[repr(u8)] enum, given by its discriminant
Named(code) == [panic |-> FALSE, code |-> code]

\* the conversion of a byte did not return
ConversionPanic == [panic |-> TRUE, code |-> 0]

\* #[derive(FromU8)]: From<u8> for an enum whose discriminants are named.
\* A named code gives its variant.  The enums have no variant for another
\* code, so for such a code the conversion yields unnamed: it does not
\* return, or it returns one of the variants.
FromU8(named, code, unnamed) == IF code \in named THEN Named(code) ELSE unnamed

\* #[derive(IntoU8)]: From<enum> for u8, the discriminant of the variant
IntoU8(v) == v.code

\* what From<u8> may do with a code the enum does not name
UnnamedOutcomes(variants) == {ConversionPanic} \cup {Named(v) : v \in variants}

Ok(v) == [ok |-> TRUE, val |-> v]

Err(e) == [ok |-> FALSE, err |-> e]

\* HciParseError::OutOfBounds
OutOfBounds(field, position) ==
    [kind |-> "OutOfBounds", field |-> field, position |-> position]

\* HciParseError::NotImplemented
NotImplemented(evcode, sub_evcode) ==
    [kind |-> "NotImplemented", evcode |-> evcode, sub_evcode |-> sub_evcode]

\* one field of an event: reader.read_u8() / read_u16() (scalar of size
\* bytes) or reader.read_u8_slice(size), then .ok_or(OutOfBounds{name, pos})
U8Field(name) == [name |-> name, size |-> 1, scalar |-> TRUE]

U16Field(name) == [name |-> name, size |-> 2, scalar |-> TRUE]

SliceField(name, size) == [name |-> name, size |-> size, scalar |-> FALSE]

\* result of decoding: the Result, the reader's final position, the number
\* of log::warn! calls, whether the code panicked
Decoded(res, p, warns, fault) == [res |-> res, pos |-> p, logs |-> warns, fault |-> fault]

RECURSIVE read_fields(_, _, _, _)
\* the fields of a struct literal read in wire order from position p; each
\* failed read returns Err(OutOfBounds{field, position: reader.pos}) at once
read_fields(b, p, fields, got) ==
    IF fields = <<>> THEN Decoded(Ok(got), p, 0, FALSE)
    ELSE LET f == Head(fields)
             r == IF f.scalar THEN read_scalar(b, p, f.size)
                  ELSE read_u8_slice(b, p, f.size)
         IN  IF r.fault THEN Decoded(Err(OutOfBounds(f.name, r.pos)), r.pos, 0, TRUE)
             ELSE IF ~r.ret.some
                  THEN Decoded(Err(OutOfBounds(f.name, r.pos)), r.pos, 0, FALSE)
             ELSE read_fields(b, r.pos, Tail(fields), got @@ (f.name :> r.ret.val))

read_tail_to_end(b, len, head, name, overflow_checks) ==
    IF ~head.res.ok THEN head
    ELSE LET r == read_u8_slice(b, head.pos, remaining(b, head.pos))
         IN  Decoded(Ok(head.res.val @@ (name :> r.ret.val)), r.pos, 0, r.fault)

\* a field holding the rest of the declared length:
\* reader.read_u8_slice(packet.len - reader.pos).ok_or(OutOfBounds{name, pos})
\* after the fields in head.  The usize subtraction underflows when
\* packet.len < reader.pos: with overflow checks the code panics, without
\* them the length wraps to more than any buffer holds and the read fails.
read_tail(b, len, head, name, overflow_checks) ==
    IF ~head.res.ok THEN head
    ELSE IF len < head.pos
         THEN Decoded(Err(OutOfBounds(name, head.pos)), head.pos, 0, overflow_checks)
    ELSE LET r == read_u8_slice(b, head.pos, len - head.pos)
         IN  IF ~r.ret.some
             THEN Decoded(Err(OutOfBounds(name, r.pos)), r.pos, 0, r.fault)
             ELSE Decoded(Ok(head.res.val @@ (name :> r.ret.val)), r.pos, 0, r.fault)

\* wraps the fields of a decoded struct into an enum variant
Variant(kind, d) ==
    IF d.res.ok THEN [d EXCEPT !.res = Ok([kind |-> kind] @@ d.res.val)] ELSE d

DisconnectionCompleteReasonFirst ==
    <<U8Field("status"), U8Field("reason"), U16Field("connection_handle")>>

\* DisconnectionCompleteEvent { status, connection_handle, reason }
DisconnectionCompleteFields ==
    <<U8Field("status"), U16Field("connection_handle"), U8Field("reason")>>

\* CommandCompleteEvent, the fields before return_parameters
CommandCompleteFields ==
    <<U8Field("num_hci_command_packets"), U16Field("command_opcode")>>

ConnectionCompleteRoleFirst ==
    <<U8Field("status"), U8Field("role"), U16Field("connection_handle"),
      U8Field("peer_address_type"), SliceField("peer_address", 6),
      U16Field("connection_interval"), U16Field("peripheral_latency"),
      U16Field("supervision_timeout"), U8Field("central_clock_accuracy")>>

\* ConnectionCompleteEvent
ConnectionCompleteFields ==
    <<U8Field("status"), U16Field("connection_handle"), U8Field("role"),
      U8Field("peer_address_type"), SliceField("peer_address", 6),
      U16Field("connection_interval"), U16Field("peripheral_latency"),
      U16Field("supervision_timeout"), U8Field("central_clock_accuracy")>>

ConnectionUpdateCompleteLatencyFirst ==
    <<U8Field("status"), U16Field("connection_handle"),
      U16Field("peripheral_latency"), U16Field("connection_interval"),
      U16Field("supervision_timeout")>>

\* ConnectionUpdateCompleteEvent
ConnectionUpdateCompleteFields ==
    <<U8Field("status"), U16Field("connection_handle"),
      U16Field("connection_interval"), U16Field("peripheral_latency"),
      U16Field("supervision_timeout")>>

le_meta_not_implemented_no_sub(code, p) ==
    Decoded(Err(NotImplemented(IntoU8(Named(EVCODE_LEMetaEvent)), None)), p, 1, FALSE)

\* from_packet, LEMetaEvent arm, the catch-all arm `code => { .. }`: one
\* log::warn!, then Err(NotImplemented { .. })
le_meta_not_implemented(code, p) ==
    Decoded(Err(NotImplemented(IntoU8(Named(EVCODE_LEMetaEvent)), Some(IntoU8(code)))),
            p, 1, FALSE)

\* from_packet, LEMetaEvent arm
from_packet_le_meta(pkt, overflow_checks, unnamed) ==
    LET b == pkt.parameters
        sub == read_u8(b, 0)
        variant == FromU8(SubeventCodes, sub.ret.val, unnamed.sub)
        code == variant.code
    IN  IF ~sub.ret.some
        THEN Decoded(Err(OutOfBounds("sub_event_code", sub.pos)), sub.pos, 0, sub.fault)
        ELSE IF variant.panic
        THEN Decoded(Err(OutOfBounds("sub_event_code", sub.pos)), sub.pos, 0, TRUE)
        ELSE CASE code = SUBEVCODE_ConnectionComplete ->
                    Variant("LEMetaEvent::ConnectionComplete",
                            read_fields(b, sub.pos, ConnectionCompleteFields, <<>>))
               [] code = SUBEVCODE_AdvertisingReport ->
                    LET d == read_tail(b, pkt.len,
                                       read_fields(b, sub.pos, <<U8Field("num_reports")>>, <<>>),
                                       "reports", overflow_checks)
                    IN  IF ~d.res.ok THEN d
                        ELSE [d EXCEPT !.res =
                                Ok([kind |-> "LEMetaEvent::AdvertisingReport",
                                    num_reports |-> d.res.val.num_reports,
                                    reader |-> Reader_new(d.res.val.reports)])]
               [] code = SUBEVCODE_ConnectionUpdateComplete ->
                    Variant("LEMetaEvent::ConnectionUpdateComplete",
                            read_fields(b, sub.pos, ConnectionUpdateCompleteFields, <<>>))
               [] OTHER -> le_meta_not_implemented(variant, sub.pos)

\* HCIEvent::from_packet.  overflow_checks: the build panics on integer
\* overflow; unnamed: what From<u8> does with a code its enum does not name
\* (unnamed.evcode for HCIEventCode, unnamed.sub for SubeventCode)
from_packet(pkt, overflow_checks, unnamed) ==
    LET reader == Reader_new(pkt.parameters)
        evcode == FromU8(EventCodes, pkt.evcode, unnamed.evcode)
    IN  IF evcode.panic
        THEN Decoded(Err(NotImplemented(pkt.evcode, None)), reader.pos, 0, TRUE)
        ELSE
        CASE evcode.code = EVCODE_DisconnectionComplete ->
                Variant("DisconnectionComplete",
                        read_fields(reader.buf, reader.pos, DisconnectionCompleteFields, <<>>))
          [] evcode.code = EVCODE_CommandComplete ->
                Variant("CommandComplete",
                        read_tail(reader.buf, pkt.len,
                                  read_fields(reader.buf, reader.pos, CommandCompleteFields, <<>>),
                                  "return_parameters", overflow_checks))
          [] evcode.code = EVCODE_LEMetaEvent ->
                from_packet_le_meta(pkt, overflow_checks, unnamed)

\* ------------------------------------------------------------------------
\* The event decoder as a state machine: one HCIEventPacket, built from its
\* public fields, and one call of from_packet
\* ------------------------------------------------------------------------

\* event codes of the generated packets: the named ones and two others
PacketEventCodes == EventCodes \cup {15, 255}

\* variants From<u8> is let to return for a subevent code the enum does
\* not name: the handled ones and one that is not handled
UnnamedSubevents == {1, 2, 3, 4}

\* first parameter bytes of the generated long packets
FirstBytes == {0, 1, 2, 3, 4, 53}

EventParams ==
    SeqsUpTo(EventBytes, MaxShortParams)
        \cup {<<c>> \o Pattern(n, s) : c \in FirstBytes, n \in 0..(MaxParamLen - 1), s \in Seeds}

\* declared lengths: the true one, and lengths around it and around the
\* fixed part of the variable-tail events
DeclaredLens(params) ==
    {n \in {0, 2, 3, Len(params) - 1, Len(params), Len(params) + 1} : n >= 0}

EventPackets ==
    {[kind |-> "Event", evcode |-> c, len |-> n, parameters |-> ps] :
        c \in PacketEventCodes, ps \in EventParams, n \in 0..(MaxParamLen + 1)}

InitEvent ==
    /\ packet \in {Some(pkt) : pkt \in {q \in EventPackets :
                                            q.len \in DeclaredLens(q.parameters)}}
    /\ buf = packet.val.parameters
    /\ addr = 0
    /\ pos = 0
    /\ last = NoOp
    /\ panicked = FALSE
    /\ logs = 0
    /\ event = None
    /\ iter = NoIter
    /\ cursors = NoCursors

FromPacket ==
    /\ ~panicked
    /\ last.op = "new"
    /\ \E overflow_checks \in BOOLEAN,
          unnamed \in [evcode : UnnamedOutcomes(EventCodes), sub : UnnamedOutcomes(UnnamedSubevents)] :
         LET d == from_packet(packet.val, overflow_checks, unnamed)
         IN  /\ event' = (IF d.fault THEN None ELSE Some(d.res))
             /\ pos' = d.pos
             /\ logs' = logs + d.logs
             /\ panicked' = d.fault
             /\ last' = [op |-> "from_packet", arg |-> 0, pos0 |-> 0, ret |-> None, acc |-> {}]
    /\ UNCHANGED <<buf, addr, packet, iter, cursors>>

NextEvent == FromPacket

SpecEvent == InitEvent /\ [][NextEvent]_vars

\* ------------------------------------------------------------------------
\* AdvertisingReportIterator
\* ------------------------------------------------------------------------

\* a byte taken as it is
as_i8_unsigned(b) == b

\* `as i8` of a byte
as_i8(b) == IF b >= 128 THEN b - 256 ELSE b

\* AdvertisingDataIterator { reader: Reader::new(slice) }
AdvertisingDataIterator_new(slice) == [reader |-> Reader_new(slice)]

\* result of one call of next(): the returned Option, the position of the
\* iterator's reader after the call, whether the call panicked
Stepped(ret, p, fault) == [ret |-> ret, pos |-> p, fault |-> fault]

\* the fields of an AdvertisingReport up to the length of its data
ReportHeadFields ==
    <<U8Field("event_type"), U8Field("address_type"), SliceField("address", 6),
      U8Field("len")>>

\* AdvertisingReportIterator::next with the length byte left unread
report_next_peek(b, p, num_reports) ==
    IF remaining(b, p) = 0 THEN Stepped(None, p, FALSE)
    ELSE LET head == read_fields(b, p, ReportHeadFields, <<>>)
             rest == read_fields(b, head.pos - 1,
                                 <<SliceField("data", head.res.val.len), U8Field("rssi")>>,
                                 head.res.val)
         IN  IF ~head.res.ok THEN Stepped(None, head.pos, head.fault)
             ELSE IF ~rest.res.ok THEN Stepped(None, rest.pos, rest.fault)
             ELSE Stepped(Some([event_type |-> rest.res.val.event_type,
                                address_type |-> rest.res.val.address_type,
                                address |-> rest.res.val.address,
                                data |-> AdvertisingDataIterator_new(rest.res.val.data),
                                rssi |-> as_i8(rest.res.val.rssi)]),
                          rest.pos, FALSE)

report_next_counted(b, p, num_reports) ==
    IF num_reports = 0 \/ remaining(b, p) = 0 THEN Stepped(None, p, FALSE)
    ELSE LET head == read_fields(b, p, ReportHeadFields, <<>>)
             rest == read_fields(b, head.pos,
                                 <<SliceField("data", head.res.val.len), U8Field("rssi")>>,
                                 head.res.val)
         IN  IF ~head.res.ok THEN Stepped(None, head.pos, head.fault)
             ELSE IF ~rest.res.ok THEN Stepped(None, rest.pos, rest.fault)
             ELSE Stepped(Some([event_type |-> rest.res.val.event_type,
                                address_type |-> rest.res.val.address_type,
                                address |-> rest.res.val.address,
                                data |-> AdvertisingDataIterator_new(rest.res.val.data),
                                rssi |-> as_i8(rest.res.val.rssi)]),
                          rest.pos, FALSE)

\* AdvertisingReportIterator::next, the iterator's reader being at p.  Each
\* read is followed by ?: a failed read returns None and leaves the reader
\* where the reads before it moved it.
report_next(b, p, num_reports) ==
    IF remaining(b, p) = 0 THEN Stepped(None, p, FALSE)
    ELSE LET head == read_fields(b, p, ReportHeadFields, <<>>)
             rest == read_fields(b, head.pos,
                                 <<SliceField("data", head.res.val.len), U8Field("rssi")>>,
                                 head.res.val)
         IN  IF ~head.res.ok THEN Stepped(None, head.pos, head.fault)
             ELSE IF ~rest.res.ok THEN Stepped(None, rest.pos, rest.fault)
             ELSE Stepped(Some([event_type |-> rest.res.val.event_type,
                                address_type |-> rest.res.val.address_type,
                                address |-> rest.res.val.address,
                                data |-> AdvertisingDataIterator_new(rest.res.val.data),
                                rssi |-> as_i8(rest.res.val.rssi)]),
                          rest.pos, FALSE)

\* ------------------------------------------------------------------------
\* The report iterator as a state machine: one AdvertisingReportIterator
\* over one payload, next() called again and again
\* ------------------------------------------------------------------------

\* one advertising report on the wire
ReportBytes(event_type, address_type, seed, L, rssi) ==
    <<event_type, address_type>> \o Pattern(6, seed) \o <<L>> \o Pattern(L, seed + 100)
        \o <<rssi>>

\* the records the generated payloads are made of
ReportShapes ==
    {ReportBytes(0, 1, 10, 0, 200), ReportBytes(3, 0, 20, 2, 5), ReportBytes(4, 1, 30, 3, 128)}

\* a record that declares more data than any generated payload holds
OverlongHead == <<2, 0>> \o Pattern(6, 40) \o <<200>>

RECURSIVE Concats(_, _)
\* the concatenations of at most n sequences of S
Concats(S, n) ==
    IF n = 0 THEN {<<>>}
    ELSE LET shorter == Concats(S, n - 1)
         IN  shorter \cup {t \o x : t \in shorter, x \in S}

\* the prefixes of the sequences of S
Prefixes(S) == UNION {{SubSeq(t, 1, n) : n \in 0..Len(t)} : t \in S}

ReportPayloads ==
    LET whole == Concats(ReportShapes, MaxReports)
    IN  Prefixes(whole) \cup {OverlongHead \o t : t \in Concats(ReportShapes, 1)}

\* values of the advisory count of the generated iterators
NumReports == {0, 2, 9}

InitReports ==
    /\ buf \in ReportPayloads
    /\ addr = 0
    /\ pos = Reader_new(buf).pos
    /\ last = NoOp
    /\ panicked = FALSE
    /\ packet = None
    /\ logs = 0
    /\ event = None
    /\ iter \in {[kind |-> "reports", num_reports |-> n, items |-> <<>>,
                  ended |-> FALSE, calls |-> 0] : n \in NumReports}
    /\ cursors = NoCursors

\* the effect of one call of next() with result r
ApplyNext(r) ==
    /\ pos' = r.pos
    /\ last' = [op |-> "next", arg |-> 0, pos0 |-> pos, ret |-> r.ret, acc |-> {}]
    /\ panicked' = r.fault
    /\ iter' = [iter EXCEPT !.items = IF r.ret.some /\ ~r.fault THEN Append(@, r.ret.val) ELSE @,
                            !.ended = @ \/ (~r.ret.some /\ ~r.fault),
                            !.calls = @ + 1]
    /\ UNCHANGED <<buf, addr, packet, logs, event, cursors>>

NextReport ==
    /\ ~panicked
    /\ iter.kind = "reports"
    /\ iter.calls < MaxCalls
    /\ ApplyNext(report_next(buf, pos, iter.num_reports))

NextReports == NextReport

SpecReports == InitReports /\ [][NextReports]_vars

\* ------------------------------------------------------------------------
\* AdvertisingDataIterator
\* ------------------------------------------------------------------------

\* AdvertisingDataType: the variants matched by AdvertisingDataIterator::next,
\* by their type codes
AdvertisingDataTypeName(code) ==
    CASE code = 1 -> "Flags"
      [] code = 2 -> "IncompleteListOf16BitServiceUUIDs"
      [] code = 3 -> "CompleteListOf16BitServiceUUIDs"
      [] code = 4 -> "IncompleteListOf32BitServiceUUIDs"
      [] code = 5 -> "CompleteListOf32BitServiceUUIDs"
      [] code = 6 -> "IncompleteListOf128BitServiceUUIDs"
      [] code = 7 -> "CompleteListOf128BitServiceUUIDs"
      [] code = 8 -> "ShortenedLocalName"
      [] code = 9 -> "CompleteLocalName"
      [] code = 10 -> "TxPowerLevel"
      [] code = 13 -> "ClassOfDevice"
      [] code = 18 -> "PeripheralConnectionIntervalRange"
      [] code = 22 -> "ServiceData"
      [] code = 25 -> "Appearance"
      [] code = 27 -> "LEBluetoothDeviceAddress"
      [] code = 255 -> "ManufacturerSpecificData"

\* AdvertisingDataType: every code the enum names
AdvertisingDataTypes == {1, 2, 3, 4, 5, 6, 7, 8, 9, 10, 13, 18, 22, 25, 27, 255}

RECURSIVE utf8_valid(_, _)
\* the bytes of s from index i on are well-formed UTF-8
utf8_valid(s, i) ==
    IF i > Len(s) THEN TRUE
    ELSE LET c == s[i]
             cont(j, lo, hi) == j <= Len(s) /\ s[j] >= lo /\ s[j] <= hi
         IN  IF c < 128 THEN utf8_valid(s, i + 1)
             ELSE IF c >= 194 /\ c <= 223
                  THEN cont(i + 1, 128, 191) /\ utf8_valid(s, i + 2)
             ELSE IF c >= 224 /\ c <= 239
                  THEN /\ cont(i + 1, IF c = 224 THEN 160 ELSE 128, IF c = 237 THEN 159 ELSE 191)
                       /\ cont(i + 2, 128, 191)
                       /\ utf8_valid(s, i + 3)
             ELSE IF c >= 240 /\ c <= 244
                  THEN /\ cont(i + 1, IF c = 240 THEN 144 ELSE 128, IF c = 244 THEN 143 ELSE 191)
                       /\ cont(i + 2, 128, 191)
                       /\ cont(i + 3, 128, 191)
                       /\ utf8_valid(s, i + 4)
             ELSE FALSE

\* core::str::from_utf8(bytes).ok(); a str is modelled by its bytes
from_utf8(bytes) == IF utf8_valid(bytes, 1) THEN Some(bytes) ELSE None

\* AdvertisingDataIterator::next, the match on ad_type: the value decoded
\* by a fresh reader over data.  a is the address of the first byte of
\* data, len the length byte of the entry (one more than data holds).
ad_value(ad_type, data, a, len, ub) ==
    LET reader == Reader_new(data)
        rest == read_u8_slice(data, reader.pos, remaining(data, reader.pos))
        power == read_u8(data, reader.pos)
    IN  CASE ad_type = "Flags" -> read_u8(data, reader.pos)
          [] ad_type \in {"IncompleteListOf16BitServiceUUIDs",
                          "CompleteListOf16BitServiceUUIDs"} ->
                read_wide_slice(data, reader.pos, a, len, 2, ub)
          [] ad_type \in {"IncompleteListOf32BitServiceUUIDs",
                          "CompleteListOf32BitServiceUUIDs"} ->
                read_wide_slice(data, reader.pos, a, len, 4, ub)
          [] ad_type \in {"IncompleteListOf128BitServiceUUIDs",
                          "CompleteListOf128BitServiceUUIDs"} ->
                read_wide_slice(data, reader.pos, a, len, 16, ub)
          [] ad_type \in {"ShortenedLocalName", "CompleteLocalName"} ->
                IF rest.ret.some THEN [rest EXCEPT !.ret = from_utf8(rest.ret.val)] ELSE rest
          [] ad_type = "TxPowerLevel" ->
                IF power.ret.some THEN [power EXCEPT !.ret = Some(as_i8(power.ret.val))]
                ELSE power
          [] ad_type = "ClassOfDevice" -> read_u32(data, reader.pos)
          [] ad_type \in {"PeripheralConnectionIntervalRange", "ServiceData",
                          "LEBluetoothDeviceAddress", "ManufacturerSpecificData"} -> rest
          [] ad_type = "Appearance" -> read_u16(data, reader.pos)

\* AdvertisingDataIterator::next with the first read unwrapped
ad_next_unwrap(b, p, a, ub, overflow_checks, unnamed) ==
    LET len == read_u8(b, p)
        ty == read_u8(b, len.pos)
        ad_type == FromU8(AdvertisingDataTypes, ty.ret.val, unnamed)
        data == read_u8_slice(b, ty.pos, len.ret.val - 1)
        name == AdvertisingDataTypeName(IntoU8(ad_type))
        value == ad_value(name, data.ret.val, a + ty.pos, len.ret.val, ub)
    IN  IF ~len.ret.some THEN Stepped(None, len.pos, TRUE)
        ELSE IF ~ty.ret.some THEN Stepped(None, ty.pos, ty.fault)
        ELSE IF ad_type.panic THEN Stepped(None, ty.pos, TRUE)
        ELSE IF len.ret.val < 1 THEN Stepped(None, ty.pos, overflow_checks)
        ELSE IF ~data.ret.some THEN Stepped(None, data.pos, data.fault)
        ELSE IF ~value.ret.some THEN Stepped(None, data.pos, value.fault)
        ELSE Stepped(Some([kind |-> name, value |-> value.ret.val]),
                     data.pos, value.fault)

\* AdvertisingDataIterator::next, the iterator's reader being at p.  a is
\* the address of the first byte of the block.  len - size_of::<u8>()
\* underflows when the length byte is 0: with overflow checks the code
\* panics, without them the length wraps and the read of the data fails.
ad_next(b, p, a, ub, overflow_checks, unnamed) ==
    IF remaining(b, p) = 0 THEN Stepped(None, p, FALSE)
    ELSE LET len == read_u8(b, p)
             ty == read_u8(b, len.pos)
             ad_type == FromU8(AdvertisingDataTypes, ty.ret.val, unnamed)
             data == read_u8_slice(b, ty.pos, len.ret.val - 1)
             name == AdvertisingDataTypeName(IntoU8(ad_type))
             value == ad_value(name, data.ret.val, a + ty.pos, len.ret.val, ub)
         IN  IF ~len.ret.some THEN Stepped(None, len.pos, len.fault)
             ELSE IF ~ty.ret.some THEN Stepped(None, ty.pos, ty.fault)
             ELSE IF ad_type.panic THEN Stepped(None, ty.pos, TRUE)
             ELSE IF len.ret.val < 1 THEN Stepped(None, ty.pos, overflow_checks)
             ELSE IF ~data.ret.some THEN Stepped(None, data.pos, data.fault)
             ELSE IF ~value.ret.some THEN Stepped(None, data.pos, value.fault)
             ELSE Stepped(Some([kind |-> name, value |-> value.ret.val]),
                          data.pos, value.fault)

\* ------------------------------------------------------------------------
\* The data iterator as a state machine: one AdvertisingDataIterator over
\* one data block, next() called again and again
\* ------------------------------------------------------------------------

\* one Advertising Data entry on the wire
AdEntry(type, value) == <<Len(value) + 1, type>> \o value

\* the entries the generated blocks are made of: well-formed entries of
\* each layout, a name that is not UTF-8, a Flags entry without its value,
\* an empty name,
\* an entry of length 0 and an entry whose type code is not named
AdShapes ==
    {AdEntry(1, <<6>>), AdEntry(3, <<15, 24>>), AdEntry(4, Pattern(4, 50)),
     AdEntry(7, Pattern(16, 60)), AdEntry(9, <<104, 105>>), AdEntry(8, <<255, 254>>),
     AdEntry(10, <<244>>), AdEntry(255, <<76, 0, 2>>), AdEntry(25, <<193, 3>>),
     AdEntry(1, <<>>), AdEntry(9, <<>>), <<0, 1>>, AdEntry(119, <<1>>)}

AdBlocks == Prefixes(Concats(AdShapes, MaxEntries))

\* variants From<u8> is let to return for a type code the enum does not name
UnnamedAdTypes == {1, 255}

InitAdData ==
    /\ buf \in AdBlocks
    /\ addr \in Addrs
    /\ pos = AdvertisingDataIterator_new(buf).reader.pos
    /\ last = NoOp
    /\ panicked = FALSE
    /\ packet = None
    /\ logs = 0
    /\ event = None
    /\ iter = [kind |-> "data", num_reports |-> 0, items |-> <<>>, ended |-> FALSE, calls |-> 0]
    /\ cursors = NoCursors

NextAd ==
    /\ ~panicked
    /\ iter.kind = "data"
    /\ iter.calls < MaxCalls
    /\ \E ub \in UBOutcomes, overflow_checks \in BOOLEAN,
          unnamed \in UnnamedOutcomes(UnnamedAdTypes) :
         ApplyNext(ad_next(buf, pos, addr, ub, overflow_checks, unnamed))

NextAdData == NextAd

SpecAdData == InitAdData /\ [][NextAdData]_vars

\* ------------------------------------------------------------------------
\* Both iterators: an AdvertisingReportIterator over a payload or an
\* AdvertisingDataIterator over a data block, next() called again and again
\* ------------------------------------------------------------------------

InitIterators == InitReports \/ InitAdData

NextIterators == NextReport \/ NextAd

SpecIterators == InitIterators /\ [][NextIterators]_vars

\* ------------------------------------------------------------------------
\* utils::writer::Writer (utils/src/lib.rs holds the same code once more)
\* ------------------------------------------------------------------------

\* result of a Writer operation: the buffer and the position after it, the
\* returned Result, whether the operation panicked
Written(b, p, ret, fault) == [buf |-> b, pos |-> p, ret |-> ret, fault |-> fault]

\* Writer { buf, pos: 0 }
Writer_new(b) == [buf |-> b, pos |-> 0]

\* u8/u16/.../u128::to_le_bytes; a value of more than 16 bits is the
\* sequence of its 16-bit limbs, the least significant first
to_le_bytes(v, size) ==
    IF size = 1 THEN <<v>>
    ELSE IF size = 2 THEN <<v % 256, v \div 256>>
    ELSE [i \in 1..size |-> IF i % 2 = 1 THEN v[(i + 1) \div 2] % 256
                            ELSE v[i \div 2] \div 256]

\* self.buf[pos..(pos + slice.len())].copy_from_slice(slice)
copy_from_slice(b, p, slice) ==
    [i \in 1..Len(b) |-> IF i > p /\ i <= p + Len(slice) THEN slice[i - p] ELSE b[i]]

\* Writer::write_u8_slice
write_u8_slice(b, p, slice) ==
    IF p + Len(slice) >= Len(b) THEN Written(b, p, Err("BufferOverflow"), FALSE)
    ELSE Written(copy_from_slice(b, p, slice), p + Len(slice), Ok(<<>>), FALSE)

\* Writer::write_u8, write_u16, write_u32, write_u64, write_u128
write_scalar(b, p, value, size) == write_u8_slice(b, p, to_le_bytes(value, size))

write_u8(b, p, value) == write_scalar(b, p, value, 1)

write_u16(b, p, value) == write_scalar(b, p, value, 2)

write_u32(b, p, value) == write_scalar(b, p, value, 4)

write_u64(b, p, value) == write_scalar(b, p, value, 8)

write_u128(b, p, value) == write_scalar(b, p, value, 16)

RECURSIVE MemoryOf(_, _)
\* the bytes a slice of w-byte integers occupies in memory (little-endian
\* target)
MemoryOf(elems, w) ==
    IF elems = <<>> THEN <<>>
    ELSE to_le_bytes(Head(elems), w) \o MemoryOf(Tail(elems), w)

\* utils::slice::as_u8_slice::<T> = as_slice::<u8, T> with size_of::<T>() =
\* w: slice.len() counts elements, it is tested against size_of::<u8>() and
\* becomes the length of the byte slice, so the result views the first
\* slice.len() bytes of the elements
as_u8_slice(elems, w) ==
    IF Len(elems) % 1 # 0 THEN None
    ELSE Some(SubSeq(MemoryOf(elems, w), 1, Len(elems) \div 1))

\* Writer::write_u16_slice, write_u32_slice, write_u64_slice,
\* write_u128_slice (w = 2 .. 16)
write_wide_slice(b, p, elems, w) ==
    IF p + Len(elems) >= Len(b) THEN Written(b, p, Err("BufferOverflow"), FALSE)
    ELSE LET slice == as_u8_slice(elems, w)
         IN  IF ~slice.some THEN Written(b, p, Err("BufferOverflow"), FALSE)
             ELSE Written(copy_from_slice(b, p, slice.val), p + Len(slice.val),
                          Ok(<<>>), p + Len(slice.val) > Len(b))

\* ------------------------------------------------------------------------
\* The writer as a state machine: one Writer over one zeroed buffer, any
\* sequence of its operations
\* ------------------------------------------------------------------------

\* a value of n 16-bit limbs
Limbs(n, seed) == [i \in 1..n |-> (seed + 4097 * i) % 65536]

\* the values written, by size in bytes
WriteValues(size) ==
    IF size = 1 THEN {171}
    ELSE IF size = 2 THEN {4660}
    ELSE {Limbs(size \div 2, 22136)}

\* the byte slices written
ByteSlices == {<<>>, <<17>>, <<33, 34>>}

\* the slices of w-byte integers written: none, one or two elements
WideSlices(w) ==
    LET vs == WriteValues(w)
    IN  {<<>>} \cup {<<v>> : v \in vs} \cup {<<v, v>> : v \in vs}

\* lengths of the buffers: the short ones, and two that hold a u128
WriterBufLens == (0..MaxWriteBuf) \cup {17, 18}

InitWriter ==
    /\ buf \in {[i \in 1..n |-> 0] : n \in WriterBufLens}
    /\ addr = 0
    /\ pos = Writer_new(buf).pos
    /\ last = [NoOp EXCEPT !.arg = <<>>] @@ [calls |-> 0]
    /\ panicked = FALSE
    /\ packet = None
    /\ logs = 0
    /\ event = None
    /\ iter = NoIter
    /\ cursors = NoCursors

\* the effect of one Writer operation op(arg) with result r
ApplyWrite(op, arg, r) ==
    /\ ~panicked
    /\ last.calls < MaxWrites
    /\ buf' = r.buf
    /\ pos' = r.pos
    /\ last' = [op |-> op, arg |-> arg, pos0 |-> pos, ret |-> r.ret, acc |-> {},
                calls |-> last.calls + 1]
    /\ panicked' = r.fault
    /\ UNCHANGED <<addr, packet, logs, event, iter, cursors>>

WriteU8 == \E v \in WriteValues(1) : ApplyWrite("write_u8", v, write_u8(buf, pos, v))

WriteU16 == \E v \in WriteValues(2) : ApplyWrite("write_u16", v, write_u16(buf, pos, v))

WriteU32 == \E v \in WriteValues(4) : ApplyWrite("write_u32", v, write_u32(buf, pos, v))

WriteU64 == \E v \in WriteValues(8) : ApplyWrite("write_u64", v, write_u64(buf, pos, v))

WriteU128 == \E v \in WriteValues(16) : ApplyWrite("write_u128", v, write_u128(buf, pos, v))

WriteU8Slice ==
    \E s \in ByteSlices : ApplyWrite("write_u8_slice", s, write_u8_slice(buf, pos, s))

WriteU16Slice ==
    \E s \in WideSlices(2) : ApplyWrite("write_u16_slice", s, write_wide_slice(buf, pos, s, 2))

WriteU32Slice ==
    \E s \in WideSlices(4) : ApplyWrite("write_u32_slice", s, write_wide_slice(buf, pos, s, 4))

WriteU64Slice ==
    \E s \in WideSlices(8) : ApplyWrite("write_u64_slice", s, write_wide_slice(buf, pos, s, 8))

WriteU128Slice ==
    \E s \in WideSlices(16) :
        ApplyWrite("write_u128_slice", s, write_wide_slice(buf, pos, s, 16))

NextWriter ==
    \/ WriteU8
    \/ WriteU16
    \/ WriteU32
    \/ WriteU64
    \/ WriteU128
    \/ WriteU8Slice
    \/ WriteU16Slice
    \/ WriteU32Slice
    \/ WriteU64Slice
    \/ WriteU128Slice

SpecWriter == InitWriter /\ [][NextWriter]_vars

\* ------------------------------------------------------------------------
\* Two cursors: two Readers (bare, or inside an iterator), each built over
\* a buffer of its own or both over the same buffer, their operations
\* interleaved in any order
\* ------------------------------------------------------------------------

\* the buffers the cursors are built over: a report payload and a data block
CursorBufs == {ReportBytes(3, 0, 20, 2, 5), <<2, 1, 6, 0, 1>>}

\* the operations called on the cursors, with their arguments
CursorOps ==
    {[op |-> "read_u8", arg |-> 0], [op |-> "read_u16", arg |-> 0],
     [op |-> "read_u8_slice", arg |-> 3], [op |-> "seek", arg |-> 1],
     [op |-> "report_next", arg |-> 0]}
        \cup {[op |-> "ad_next", arg |-> c] : c \in BOOLEAN}

\* one operation of a Reader or an iterator on buffer b from position p:
\* what it returns, where it leaves the position, whether it panics
Exec(b, p, o) ==
    CASE o.op = "read_u8" -> read_u8(b, p)
      [] o.op = "read_u16" -> read_u16(b, p)
      [] o.op = "read_u8_slice" -> read_u8_slice(b, p, o.arg)
      [] o.op = "seek" -> seek(b, p, o.arg)
      [] o.op = "report_next" -> report_next(b, p, 0)
      [] o.op = "ad_next" -> ad_next(b, p, 0, "view", o.arg, ConversionPanic)

\* Reader { buf, pos: 0 }, with the calls made on it and their results
Cursor_new(b) == [buf |-> b, pos |-> Reader_new(b).pos, panicked |-> FALSE, hist |-> <<>>]

InitCursors ==
    /\ cursors \in {<<Cursor_new(b1), Cursor_new(b2)>> : b1 \in CursorBufs, b2 \in CursorBufs}
    /\ buf = <<>>
    /\ addr = 0
    /\ pos = 0
    /\ last = NoOp
    /\ panicked = FALSE
    /\ packet = None
    /\ logs = 0
    /\ event = None
    /\ iter = NoIter

\* total number of calls made so far
CallsMade == Len(cursors[1].hist) + Len(cursors[2].hist)

\* cursor c after the call o with outcome r
Advanced(c, o, r) ==
    [c EXCEPT !.pos = r.pos, !.panicked = r.fault,
              !.hist = Append(@, [op |-> o, ret |-> r.ret, pos |-> r.pos])]

CursorOp_shared(i, o) ==
    /\ ~cursors[i].panicked
    /\ CallsMade < MaxCursorOps
    /\ cursors' = [j \in DOMAIN cursors |->
                     [Advanced(cursors[i], o, Exec(cursors[i].buf, cursors[i].pos, o))
                         EXCEPT !.buf = cursors[j].buf, !.hist = IF j = i THEN @ ELSE cursors[j].hist,
                                !.panicked = IF j = i THEN @ ELSE cursors[j].panicked]]
    /\ UNCHANGED <<buf, addr, pos, last, panicked, packet, logs, event, iter>>

\* one call on cursor i: a `&mut self` method reads self.buf and self.pos
\* and assigns self.pos, nothing else
CursorOp(i, o) ==
    /\ ~cursors[i].panicked
    /\ CallsMade < MaxCursorOps
    /\ cursors' = [cursors EXCEPT ![i] =
                     Advanced(cursors[i], o, Exec(cursors[i].buf, cursors[i].pos, o))]
    /\ UNCHANGED <<buf, addr, pos, last, panicked, packet, logs, event, iter>>

FirstCursorOp == \E o \in CursorOps : CursorOp(1, o)

SecondCursorOp == \E o \in CursorOps : CursorOp(2, o)

NextCursors == FirstCursorOp \/ SecondCursorOp

SpecCursors == InitCursors /\ [][NextCursors]_vars

\* ------------------------------------------------------------------------
\* Properties of the cursor (checked under SpecReader)
\* ------------------------------------------------------------------------

ScalarReads == {"read_u8", "read_u16", "read_u32", "read_u64", "read_u128"}

WideSliceReads == {"read_u16_slice", "read_u32_slice", "read_u64_slice", "read_u128_slice"}

\* size_of::<T>() of the element type of a wide slice read
WidthOf(op) ==
    CASE op = "read_u16_slice" -> 2
      [] op = "read_u32_slice" -> 4
      [] op = "read_u64_slice" -> 8
      [] op = "read_u128_slice" -> 16

\* C1: after any sequence of Reader operations with any arguments the
\* position lies in 0 .. buf.len, and every index an operation touched lies
\* in [0, buf.len).
C1_CursorInBounds ==
    /\ pos \in 0..Len(buf)
    /\ last.acc \subseteq 0..(Len(buf) - 1)

\* a read has consumed the last bytes of a buffer and stands at its end
C1_Witness ==
    /\ last.op = "read_u8_slice"
    /\ last.ret.some
    /\ last.arg > 0
    /\ last.pos0 > 0
    /\ pos = Len(buf)

\* C2: a scalar read or read_u8_slice of n bytes succeeds exactly when n
\* bytes remain; then it returns the bytes buf[pos0 .. pos0 + n) (as a
\* little-endian scalar for the scalar reads) and the position is pos0 + n;
\* otherwise it returns None and the position is unchanged.  It never panics.
C2_ReadExactlyWhenFits ==
    last.op \in ScalarReads \cup {"read_u8_slice"} =>
        LET n == last.arg
            p0 == last.pos0
        IN  /\ ~panicked
            /\ last.ret.some <=> (Len(buf) - p0 >= n)
            /\ ~last.ret.some => pos = p0
            /\ last.ret.some =>
                /\ pos = p0 + n
                /\ last.acc = p0..(p0 + n - 1)
                /\ CASE last.op = "read_u8_slice" ->
                            /\ Len(last.ret.val) = n
                            /\ \A i \in 1..n : last.ret.val[i] = buf[p0 + i]
                     [] last.op = "read_u8" -> last.ret.val = buf[p0 + 1]
                     [] last.op = "read_u16" -> last.ret.val = buf[p0 + 1] + 256 * buf[p0 + 2]
                     [] OTHER ->
                            /\ Len(last.ret.val) = n \div 2
                            /\ \A i \in 1..(n \div 2) :
                                   last.ret.val[i] = buf[p0 + 2 * i - 1] + 256 * buf[p0 + 2 * i]

\* a 16-bit read failed with one byte left, after an earlier read advanced
C2_Witness ==
    /\ last.op = "read_u16"
    /\ ~last.ret.some
    /\ pos = last.pos0
    /\ pos > 0
    /\ Len(buf) - pos = 1

\* C3 (as claimed): a wide slice read of n bytes with element width w fails
\* and leaves the position unchanged when n is not a multiple of w or
\* n > remaining; otherwise it returns n / w elements and advances by n.
C3_WideSliceAsClaimed ==
    last.op \in WideSliceReads =>
        LET n == last.arg
            p0 == last.pos0
            w == WidthOf(last.op)
        IN  IF n % w # 0 \/ n > Len(buf) - p0
            THEN ~last.ret.some /\ pos = p0 /\ ~panicked
            ELSE /\ ~panicked
                 /\ last.ret.some
                 /\ Len(last.ret.val) = n \div w
                 /\ pos = p0 + n

\* C4: seek(p) succeeds exactly when p <= buf.len and then the position is
\* p and remaining() is buf.len - p; otherwise it fails and the position is
\* unchanged.
C4_SeekWithinBuffer ==
    last.op = "seek" =>
        /\ ~panicked
        /\ last.ret.some <=> (last.arg <= Len(buf))
        /\ last.ret.some => pos = last.arg /\ remaining(buf, pos) = Len(buf) - last.arg
        /\ ~last.ret.some => pos = last.pos0

\* a seek to the very end of a non-empty buffer succeeded
C4_Witness ==
    /\ last.op = "seek"
    /\ last.ret.some
    /\ last.arg = Len(buf)
    /\ Len(buf) > 0
    /\ last.pos0 # pos
    /\ remaining(buf, pos) = 0

\* ------------------------------------------------------------------------
\* Properties of the framer (checked under SpecFrame)
\* ------------------------------------------------------------------------

Framing == last.op = "from_buf"

\* C5: a buffer [0x01, o_lo, o_hi, L, p_1 .. p_L, ...] is framed as the
\* Command packet with opcode o_lo + 256 * o_hi, length L and parameters
\* the L bytes at offsets 4 .. 4 + L.
C5_CommandRoundTrip ==
    (Framing /\ Len(buf) >= 4 /\ buf[1] = 1 /\ Len(buf) >= 4 + buf[4]) =>
        /\ ~panicked
        /\ packet.some
        /\ packet.val.kind = "Command"
        /\ packet.val.opcode = buf[2] + 256 * buf[3]
        /\ packet.val.len = buf[4]
        /\ Len(packet.val.parameters) = buf[4]
        /\ \A i \in 1..buf[4] : packet.val.parameters[i] = buf[4 + i]

\* a Command buffer with a two-byte opcode, two parameters and a trailing byte
C5_Witness ==
    /\ Framing
    /\ Len(buf) = 7
    /\ buf[1] = 1
    /\ buf[2] # buf[3]
    /\ buf[4] = 2
    /\ buf[5] # buf[6]
    /\ packet.some
    /\ packet.val.kind = "Command"

\* C6 (as claimed): a buffer with tag 0x02 and header word h is framed as
\* the ACLData packet whose handle is h mod 4096 and whose flags are
\* h div 4096, the packet boundary flag being bits 2-3 and the broadcast
\* flag bits 0-1 of the flags.
C6_ACLHeaderAsClaimed ==
    (Framing /\ Len(buf) >= 3 /\ buf[1] = 2 /\ packet.some) =>
        LET h == buf[2] + 256 * buf[3]
            flags == h \div 4096
        IN  /\ packet.val.kind = "ACLData"
            /\ packet.val.handle = h % 4096
            /\ packet.val.packet_boundary_flag = (flags \div 4) % 4
            /\ packet.val.broadcast_flag = flags % 4

\* C7: a buffer [0x04, c, L, q_1 .. q_L, ...] is framed as the Event packet
\* with event code c, length L and parameters the L bytes at offsets
\* 3 .. 3 + L.
C7_EventFraming ==
    (Framing /\ Len(buf) >= 3 /\ buf[1] = 4 /\ Len(buf) >= 3 + buf[3]) =>
        /\ ~panicked
        /\ packet.some
        /\ packet.val.kind = "Event"
        /\ packet.val.evcode = buf[2]
        /\ packet.val.len = buf[3]
        /\ Len(packet.val.parameters) = buf[3]
        /\ \A i \in 1..buf[3] : packet.val.parameters[i] = buf[3 + i]

\* an Event buffer whose code differs from its length, with two parameters
\* and trailing bytes
C7_Witness ==
    /\ Framing
    /\ Len(buf) > 5
    /\ buf[1] = 4
    /\ buf[2] # buf[3]
    /\ buf[3] = 2
    /\ buf[4] # buf[5]
    /\ packet.some
    /\ packet.val.kind = "Event"

\* C8: a non-empty buffer whose tag is not 0x01, 0x02 or 0x04 is framed as
\* Unknown holding the whole buffer, with exactly one diagnostic, whatever
\* its length; the result is never None.
C8_UnknownKeepsBuffer ==
    (Framing /\ Len(buf) >= 1 /\ buf[1] \notin {1, 2, 4}) =>
        /\ ~panicked
        /\ packet.some
        /\ packet.val.kind = "Unkown"
        /\ packet.val.raw = buf
        /\ logs = 1

\* a buffer holding nothing but the ISO Data tag
C8_Witness ==
    /\ Framing
    /\ buf = <<5>>
    /\ packet.some
    /\ logs = 1

\* the buffer ends before the header, or before the payload the header
\* declares, of the variant its tag names
Truncated(b) ==
    \/ Len(b) = 0
    \/ b[1] = 1 /\ (Len(b) < 4 \/ Len(b) < 4 + b[4])
    \/ b[1] = 2 /\ (Len(b) < 5 \/ Len(b) < 5 + b[4] + 256 * b[5])
    \/ b[1] = 4 /\ (Len(b) < 3 \/ Len(b) < 3 + b[3])

\* C9: from_buf returns None for the empty buffer and for a Command, ACL
\* Data or Event buffer shorter than its header plus declared payload; it
\* never panics and never reads an index outside the buffer.
C9_TruncatedIsAbsent ==
    Framing =>
        /\ ~panicked
        /\ last.acc \subseteq 0..(Len(buf) - 1)
        /\ Truncated(buf) => ~packet.some

\* an Event buffer that declares more parameters than it holds
C9_Witness ==
    /\ Framing
    /\ Len(buf) = 5
    /\ buf[1] = 4
    /\ buf[3] = 167
    /\ ~packet.some
    /\ pos = 3

\* the payload of a framed packet: parameters or data
PayloadOf(pkt) == IF pkt.kind = "ACLData" THEN pkt.data ELSE pkt.parameters

\* the size of the header from_buf reads before the payload, tag included
HeaderSize(tag) == IF tag = 1 THEN 4 ELSE IF tag = 2 THEN 5 ELSE 3

\* the declared length in a buffer that holds a whole header
DeclaredLen(b) ==
    IF b[1] = 1 THEN b[4] ELSE IF b[1] = 2 THEN b[4] + 256 * b[5] ELSE b[3]

\* C27: every Command, Event or ACLData packet returned by from_buf has
\* len equal to the length of its payload; the payload is buf[4 .. 4+len),
\* buf[3 .. 3+len) resp. buf[5 .. 5+len) with len <= 255 resp. <= 65535;
\* a buffer holding more bytes than the declared length is framed all the
\* same, and the constructors' &buf[..len] never panics on this path.
C27_LenIsPayloadLength ==
    (Framing /\ buf # <<>> /\ buf[1] \in {1, 2, 4}) =>
        LET h == HeaderSize(buf[1]) IN
        /\ ~panicked
        /\ packet.some =>
            /\ packet.val.kind = (CASE buf[1] = 1 -> "Command" [] buf[1] = 2 -> "ACLData"
                                    [] buf[1] = 4 -> "Event")
            /\ packet.val.len = Len(PayloadOf(packet.val))
            /\ Len(buf) >= h
            /\ packet.val.len = DeclaredLen(buf)
            /\ packet.val.len <= (IF buf[1] = 2 THEN 65535 ELSE 255)
            /\ h + packet.val.len <= Len(buf)
            /\ PayloadOf(packet.val) = SubSeq(buf, h + 1, h + packet.val.len)
        /\ (Len(buf) >= h /\ Len(buf) >= h + DeclaredLen(buf)) => packet.some

\* an ACLData buffer with one data byte and a trailing byte has been framed
C27_Witness ==
    /\ Framing
    /\ Len(buf) = 7
    /\ buf[1] = 2
    /\ buf[4] = 1
    /\ buf[5] = 0
    /\ buf[6] # buf[7]
    /\ packet.some
    /\ packet.val.kind = "ACLData"
    /\ packet.val.len = 1

\* ------------------------------------------------------------------------
\* Properties of the event decoder (checked under SpecEvent)
\* ------------------------------------------------------------------------

Decoding == last.op = "from_packet"

TestPacket == [kind |-> "Event", evcode |-> 5, len |-> 4, parameters |-> <<0, 1, 0, 0>>]

\* C11 (as claimed): from_packet on the DisconnectionComplete packet with
\* len 4 and parameters [0x00, 0x01, 0x00, 0x00] returns Ok with status 0,
\* connection handle 1 and reason 0x13.
C11_TestAsAsserted ==
    (Decoding /\ packet.val = TestPacket) =>
        /\ event.some
        /\ event.val.ok
        /\ event.val.val.status = 0
        /\ event.val.val.connection_handle = 1
        /\ event.val.val.reason = 19

\* the wire layout of the fixed part of each handled event: field names
\* and sizes in bytes
Wire(name, size) == [name |-> name, size |-> size]

DisconnectionCompleteWire ==
    <<Wire("status", 1), Wire("connection_handle", 2), Wire("reason", 1)>>

CommandCompleteWire ==
    <<Wire("num_hci_command_packets", 1), Wire("command_opcode", 2)>>

ConnectionCompleteWire ==
    <<Wire("sub_event_code", 1), Wire("status", 1), Wire("connection_handle", 2),
      Wire("role", 1), Wire("peer_address_type", 1), Wire("peer_address", 6),
      Wire("connection_interval", 2), Wire("peripheral_latency", 2),
      Wire("supervision_timeout", 2), Wire("central_clock_accuracy", 1)>>

AdvertisingReportWire == <<Wire("sub_event_code", 1), Wire("num_reports", 1)>>

ConnectionUpdateCompleteWire ==
    <<Wire("sub_event_code", 1), Wire("status", 1), Wire("connection_handle", 2),
      Wire("connection_interval", 2), Wire("peripheral_latency", 2),
      Wire("supervision_timeout", 2)>>

\* the packet is one of the handled variants (an LE Meta packet without
\* its subevent byte counts as one)
HandledVariant(pkt) ==
    \/ pkt.evcode \in {5, 14}
    \/ pkt.evcode = 62 /\ (Len(pkt.parameters) = 0 \/ pkt.parameters[1] \in {1, 2, 3})

WireOf(pkt) ==
    CASE pkt.evcode = 5 -> DisconnectionCompleteWire
      [] pkt.evcode = 14 -> CommandCompleteWire
      [] pkt.evcode = 62 /\ Len(pkt.parameters) = 0 -> <<Wire("sub_event_code", 1)>>
      [] pkt.evcode = 62 /\ pkt.parameters[1] = 1 -> ConnectionCompleteWire
      [] pkt.evcode = 62 /\ pkt.parameters[1] = 2 -> AdvertisingReportWire
      [] pkt.evcode = 62 /\ pkt.parameters[1] = 3 -> ConnectionUpdateCompleteWire

RECURSIVE WireSize(_)
WireSize(wire) == IF wire = <<>> THEN 0 ELSE Head(wire).size + WireSize(Tail(wire))

RECURSIVE FirstMissing(_, _, _)
\* the first field of the layout, starting at offset off, that does not
\* fit into n bytes, and the offset at which it would start
FirstMissing(wire, off, n) ==
    IF off + Head(wire).size > n THEN [field |-> Head(wire).name, position |-> off]
    ELSE FirstMissing(Tail(wire), off + Head(wire).size, n)

\* C12: for a handled variant and parameters shorter than its minimum
\* length, from_packet returns OutOfBounds naming the first field in wire
\* order that does not fit and the offset at which it would start; it never
\* returns Ok or another error and never panics.
C12_ShortIsOutOfBounds ==
    (/\ Decoding
     /\ HandledVariant(packet.val)
     /\ Len(packet.val.parameters) < WireSize(WireOf(packet.val))) =>
        LET miss == FirstMissing(WireOf(packet.val), 0, Len(packet.val.parameters))
        IN  /\ ~panicked
            /\ event.some
            /\ ~event.val.ok
            /\ event.val.err = OutOfBounds(miss.field, miss.position)

\* a ConnectionUpdateComplete packet that ends inside its 16-bit fields
C12_Witness ==
    /\ Decoding
    /\ packet.val.evcode = 62
    /\ Len(packet.val.parameters) = 5
    /\ packet.val.parameters[1] = 3
    /\ event.some
    /\ ~event.val.ok
    /\ event.val.err.position = 4

\* the event code is named by HCIEventCode and the subevent byte, if it is
\* read, by SubeventCode
NamedCodes(pkt) ==
    /\ pkt.evcode \in {5, 14, 62}
    /\ (pkt.evcode = 62 /\ Len(pkt.parameters) > 0) => pkt.parameters[1] \in SubeventCodes

\* C13 (as claimed): for every packet with a handled event code, whatever
\* its declared len and parameters, from_packet returns Ok or Err and never
\* panics.
C13_NeverPanics ==
    (Decoding /\ NamedCodes(packet.val)) => (~panicked /\ event.some)

\* C14 (as claimed): a CommandComplete packet with declared length L >= 3
\* decodes, when at least L parameter bytes are present, to the two fixed
\* fields and return_parameters = params[3 .. L); when fewer than L bytes
\* are present it fails with OutOfBounds for return_parameters.
C14_TailAsClaimed ==
    (Decoding /\ packet.val.evcode = 14 /\ packet.val.len >= 3) =>
        LET ps == packet.val.parameters
            L == packet.val.len
        IN  /\ ~panicked
            /\ event.some
            /\ IF Len(ps) >= L
               THEN /\ event.val.ok
                    /\ event.val.val.num_hci_command_packets = ps[1]
                    /\ event.val.val.command_opcode = ps[2] + 256 * ps[3]
                    /\ Len(event.val.val.return_parameters) = L - 3
                    /\ \A i \in 1..(L - 3) : event.val.val.return_parameters[i] = ps[3 + i]
               ELSE /\ ~event.val.ok
                    /\ event.val.err.kind = "OutOfBounds"
                    /\ event.val.err.field = "return_parameters"

\* C14 (amended): as claimed, except that return_parameters is the field
\* of the error only when at least 3 parameter bytes are present; with
\* fewer than 3 the error is OutOfBounds for the fixed field that does not
\* fit (num_hci_command_packets or command_opcode).
C14_CommandCompleteTail ==
    (Decoding /\ packet.val.evcode = 14 /\ packet.val.len >= 3) =>
        LET ps == packet.val.parameters
            L == packet.val.len
        IN  /\ ~panicked
            /\ event.some
            /\ IF Len(ps) >= L
               THEN /\ event.val.ok
                    /\ event.val.val.num_hci_command_packets = ps[1]
                    /\ event.val.val.command_opcode = ps[2] + 256 * ps[3]
                    /\ Len(event.val.val.return_parameters) = L - 3
                    /\ \A i \in 1..(L - 3) : event.val.val.return_parameters[i] = ps[3 + i]
               ELSE /\ ~event.val.ok
                    /\ event.val.err.kind = "OutOfBounds"
                    /\ event.val.err.field =
                           (IF Len(ps) >= 3 THEN "return_parameters"
                            ELSE IF Len(ps) >= 1 THEN "command_opcode"
                            ELSE "num_hci_command_packets")

\* a CommandComplete packet holding one byte more than it declares, with
\* some return parameters
C14_Witness ==
    /\ Decoding
    /\ packet.val.evcode = 14
    /\ packet.val.len > 5
    /\ Len(packet.val.parameters) = packet.val.len + 1
    /\ event.some
    /\ event.val.ok
    /\ Len(event.val.val.return_parameters) = packet.val.len - 3

\* C15: an LE Meta packet whose first parameter byte is a named subevent
\* code s other than 0x01, 0x02, 0x03 gives Err(NotImplemented{0x3E,
\* Some(s)}) whatever follows, with one diagnostic logged.
C15_UnhandledSubevent ==
    (/\ Decoding
     /\ packet.val.evcode = 62
     /\ Len(packet.val.parameters) >= 1
     /\ packet.val.parameters[1] \in SubeventCodes \ {1, 2, 3}) =>
        /\ ~panicked
        /\ event = Some(Err(NotImplemented(62, Some(packet.val.parameters[1]))))
        /\ logs = 1

\* subevent 0x04 followed by further bytes
C15_Witness ==
    /\ Decoding
    /\ packet.val.evcode = 62
    /\ Len(packet.val.parameters) > 3
    /\ packet.val.parameters[1] = 4
    /\ event.some
    /\ ~event.val.ok
    /\ logs = 1

\* C16 (as claimed): a packet whose event code is not 0x05, 0x0E or 0x3E
\* gives Err(NotImplemented) carrying that event code and no subevent code,
\* without a panic.
C16_UnknownEventAsClaimed ==
    (Decoding /\ packet.val.evcode \notin {5, 14, 62}) =>
        /\ ~panicked
        /\ event = Some(Err(NotImplemented(packet.val.evcode, None)))

\* ------------------------------------------------------------------------
\* Properties of the report iterator (checked under SpecReports)
\* ------------------------------------------------------------------------

RECURSIVE RecordStarts(_, _)
\* the offsets at which the records of a payload start, when the payload
\* from offset o on is a sequence of whole records (1 + 1 + 6 + 1 + L + 1
\* bytes each); <<-1>> at the end when it is not
RecordStarts(b, o) ==
    IF o = Len(b) THEN <<>>
    ELSE IF o + 10 > Len(b) THEN <<-1>>
    ELSE IF o + 10 + b[o + 9] > Len(b) THEN <<-1>>
    ELSE <<o>> \o RecordStarts(b, o + 10 + b[o + 9])

WellFormedReports(b) == \A i \in DOMAIN RecordStarts(b, 0) : RecordStarts(b, 0)[i] >= 0

\* C17: over a payload of exactly K well-formed records the iterator
\* yields the K records in wire order, one per call, and end-of-sequence on
\* call K + 1, whatever the advisory count num_reports is.
C17_YieldsEveryRecord ==
    (iter.kind = "reports" /\ WellFormedReports(buf)) =>
        LET starts == RecordStarts(buf, 0)
            K == Len(starts)
        IN  /\ ~panicked
            /\ Len(iter.items) = (IF iter.calls <= K THEN iter.calls ELSE K)
            /\ iter.ended <=> iter.calls > K
            /\ \A i \in 1..Len(iter.items) :
                   LET o == starts[i]
                       L == buf[o + 9]
                   IN  /\ iter.items[i].event_type = buf[o + 1]
                       /\ iter.items[i].address_type = buf[o + 2]
                       /\ iter.items[i].address = SubSeq(buf, o + 3, o + 8)
                       /\ iter.items[i].data.reader.buf = SubSeq(buf, o + 10, o + 9 + L)
                       /\ iter.items[i].rssi \in {buf[o + 10 + L], buf[o + 10 + L] - 256}

\* two records with an advisory count of 9: the third call has ended the
\* sequence after two items
C17_Witness ==
    /\ iter.kind = "reports"
    /\ WellFormedReports(buf)
    /\ Len(RecordStarts(buf, 0)) = 2
    /\ iter.num_reports = 9
    /\ iter.calls = 3
    /\ Len(iter.items) = 2
    /\ iter.ended

\* C18 (as claimed): once next() of the report iterator has returned
\* end-of-sequence, no later call yields an item.
C18_ReportsStayEnded ==
    [][(iter.kind = "reports" /\ iter.ended) => iter'.items = iter.items]_vars

\* the packet is one of the handled variants and its parameters hold every
\* field of the variant's fixed layout
FixedPartFits(pkt) ==
    HandledVariant(pkt) /\ Len(pkt.parameters) >= WireSize(WireOf(pkt))

\* the variant ends in a field that takes the rest of the declared length
HasTail(pkt) ==
    pkt.evcode = 14 \/ (pkt.evcode = 62 /\ Len(pkt.parameters) > 0 /\ pkt.parameters[1] = 2)

\* C28 (as claimed): the only errors from_packet returns are OutOfBounds
\* and NotImplemented; a declared length greater than the number of
\* parameter bytes is reported as OutOfBounds (where the length is read:
\* the variants with a tail), and a declared length smaller than the
\* number of parameter bytes is not reported as an error at all.
C28_ErrorsAsClaimed ==
    Decoding =>
        /\ (event.some /\ ~event.val.ok) =>
               event.val.err.kind \in {"OutOfBounds", "NotImplemented"}
        /\ (/\ FixedPartFits(packet.val)
            /\ HasTail(packet.val)
            /\ packet.val.len > Len(packet.val.parameters)) =>
               /\ ~panicked
               /\ event.some
               /\ ~event.val.ok
               /\ event.val.err.kind = "OutOfBounds"
        /\ (/\ FixedPartFits(packet.val)
            /\ packet.val.len < Len(packet.val.parameters)) =>
               /\ ~panicked
               /\ event.some
               /\ event.val.ok

\* the payload holds a whole record at offset o
RecordAt(b, o) == o + 10 <= Len(b) /\ o + 10 + b[o + 9] <= Len(b)

\* C23: one call of next() of the report iterator on a whole record at
\* offset o with data length L yields event_type = byte o, address_type =
\* byte o+1, address = bytes o+2 .. o+8, a data iterator at position 0 over
\* exactly the L bytes o+9 .. o+9+L, rssi = byte o+9+L as a signed 8-bit
\* value, and moves the reader by exactly 10 + L.
C23_ReportStep ==
    (iter.kind = "reports" /\ last.op = "next" /\ RecordAt(buf, last.pos0)) =>
        LET o == last.pos0
            L == buf[o + 9]
            b == buf[o + 10 + L]
            item == last.ret.val
        IN  /\ ~panicked
            /\ last.ret.some
            /\ item.event_type = buf[o + 1]
            /\ item.address_type = buf[o + 2]
            /\ item.address = <<buf[o + 3], buf[o + 4], buf[o + 5], buf[o + 6], buf[o + 7], buf[o + 8]>>
            /\ item.data.reader.pos = 0
            /\ Len(item.data.reader.buf) = L
            /\ \A i \in 1..L : item.data.reader.buf[i] = buf[o + 9 + i]
            /\ item.rssi = (IF b >= 128 THEN b - 256 ELSE b)
            /\ pos = o + 10 + L

\* a second record with data and a negative rssi has been yielded
C23_Witness ==
    /\ iter.kind = "reports"
    /\ last.op = "next"
    /\ last.pos0 > 0
    /\ RecordAt(buf, last.pos0)
    /\ buf[last.pos0 + 9] > 0
    /\ last.ret.some
    /\ last.ret.val.rssi < 0
    /\ Len(iter.items) = 2

\* the 16-bit little-endian value at 0-based offset i of ps
LE16(ps, i) == ps[i + 1] + 256 * ps[i + 2]

\* from_packet has decoded an LE Meta packet with subevent byte sub and at
\* least n parameter bytes, the subevent byte being one SubeventCode names
LEMetaDecoded(sub, n) ==
    /\ Decoding
    /\ packet.val.evcode = 62
    /\ Len(packet.val.parameters) >= n
    /\ packet.val.parameters[1] = sub

\* C25: an LE Meta packet with subevent 0x01 and at least 19 parameter
\* bytes p decodes to ConnectionComplete with status = p[1],
\* connection_handle = LE16(p[2..4]), role = p[4], peer_address_type = p[5],
\* peer_address = p[6..12], connection_interval = LE16(p[12..14]),
\* peripheral_latency = LE16(p[14..16]), supervision_timeout =
\* LE16(p[16..18]), central_clock_accuracy = p[18]; one with subevent 0x03
\* and at least 10 bytes decodes to ConnectionUpdateComplete with status =
\* p[1] and the four 16-bit fields little-endian from p[2..10]; bytes after
\* the last field, and the declared length, play no part.
C25_FixedLayoutInWireOrder ==
    /\ LEMetaDecoded(1, 19) =>
        LET ps == packet.val.parameters
        IN  /\ ~panicked
            /\ event.some
            /\ event.val.ok
            /\ event.val.val =
                 [kind |-> "LEMetaEvent::ConnectionComplete",
                  status |-> ps[2],
                  connection_handle |-> LE16(ps, 2),
                  role |-> ps[5],
                  peer_address_type |-> ps[6],
                  peer_address |-> <<ps[7], ps[8], ps[9], ps[10], ps[11], ps[12]>>,
                  connection_interval |-> LE16(ps, 12),
                  peripheral_latency |-> LE16(ps, 14),
                  supervision_timeout |-> LE16(ps, 16),
                  central_clock_accuracy |-> ps[19]]
            /\ pos = 19
    /\ LEMetaDecoded(3, 10) =>
        LET ps == packet.val.parameters
        IN  /\ ~panicked
            /\ event.some
            /\ event.val.ok
            /\ event.val.val =
                 [kind |-> "LEMetaEvent::ConnectionUpdateComplete",
                  status |-> ps[2],
                  connection_handle |-> LE16(ps, 2),
                  connection_interval |-> LE16(ps, 4),
                  peripheral_latency |-> LE16(ps, 6),
                  supervision_timeout |-> LE16(ps, 8)]
            /\ pos = 10

\* a ConnectionComplete packet with a byte after its last field has been
\* decoded, its handle and role bytes differing
C25_Witness ==
    /\ LEMetaDecoded(1, 20)
    /\ packet.val.parameters[3] # packet.val.parameters[5]
    /\ event.some
    /\ event.val.ok
    /\ event.val.val.kind = "LEMetaEvent::ConnectionComplete"
    /\ event.val.val.central_clock_accuracy = packet.val.parameters[19]

\* ------------------------------------------------------------------------
\* Properties of the data iterator (checked under SpecAdData)
\* ------------------------------------------------------------------------

\* the width in bytes of the UUIDs of a service UUID list, by type code
UuidWidth(code) == IF code \in {2, 3} THEN 2 ELSE IF code \in {4, 5} THEN 4 ELSE 16

\* the block holds, at offset o, a whole service UUID list entry whose
\* value is a positive multiple of the UUID width
UuidListAt(b, o) ==
    /\ o + 2 <= Len(b)
    /\ b[o + 2] \in 2..7
    /\ b[o + 1] - 1 > 0
    /\ (b[o + 1] - 1) % UuidWidth(b[o + 2]) = 0
    /\ o + 1 + b[o + 1] <= Len(b)

\* C19 (as claimed): a call of next() on a well-formed service UUID list
\* entry (length byte L, L - 1 value bytes, L - 1 a positive multiple of
\* the width w) yields that entry with the (L - 1) / w UUIDs made of its
\* value bytes.
C19_UuidListAsClaimed ==
    (iter.kind = "data" /\ last.op = "next" /\ UuidListAt(buf, last.pos0)) =>
        LET o == last.pos0
            L == buf[o + 1]
            w == UuidWidth(buf[o + 2])
        IN  /\ ~panicked
            /\ last.ret.some
            /\ last.ret.val.kind = AdvertisingDataTypeName(buf[o + 2])
            /\ Len(last.ret.val.value) = (L - 1) \div w
            /\ \A i \in 1..((L - 1) \div w) :
                   last.ret.val.value[i] = SubSeq(buf, o + 2 + (i - 1) * w + 1, o + 2 + i * w)

\* C20 (as claimed): once next() of the data iterator has returned
\* end-of-sequence, no later call yields an entry.
C20_DataStaysEnded ==
    [][(iter.kind = "data" /\ iter.ended) => iter'.items = iter.items]_vars

\* C21 (as claimed): no call of next() of the data iterator panics or
\* underflows, whatever the block holds, an entry of length 0 included.
\* Stated for calls whose entry has a type code the enum names.
C21_DataNeverPanics ==
    (/\ iter.kind = "data"
     /\ last.op = "next"
     /\ (last.pos0 + 2 <= Len(buf) => buf[last.pos0 + 2] \in AdvertisingDataTypes)) =>
        ~panicked

\* C22: over a zero-length data block the first call of next() returns
\* end-of-sequence: no item, no panic, the reader still at 0.
C22_EmptyBlockYieldsNothing ==
    (iter.kind = "data" /\ buf = <<>> /\ iter.calls >= 1) =>
        /\ ~panicked
        /\ ~last.ret.some
        /\ iter.items = <<>>
        /\ iter.ended
        /\ pos = 0

\* next() has been called on the iterator over the empty block
C22_Witness ==
    /\ iter.kind = "data"
    /\ buf = <<>>
    /\ last.op = "next"
    /\ iter.calls = 1
    /\ iter.ended

\* ------------------------------------------------------------------------
\* Properties of both iterators (checked under SpecIterators)
\* ------------------------------------------------------------------------

\* the least number of bytes an item of the iterator takes
MinItemSize == IF iter.kind = "reports" THEN 10 ELSE 2

\* C24: every call of next() that yields an item moves the reader forward
\* by at least 10 bytes (report iterator) or 2 bytes (data iterator), the
\* reader never passes the end, and so over n bytes at most n / 10 report
\* items or n / 2 data entries are yielded.
C24_IterationIsBounded ==
    (iter.kind \in {"reports", "data"}) =>
        /\ pos <= Len(buf)
        /\ (last.op = "next" /\ last.ret.some /\ ~panicked) => pos >= last.pos0 + MinItemSize
        /\ Len(iter.items) * MinItemSize <= pos
        /\ Len(iter.items) <= Len(buf) \div MinItemSize

\* three reports of 10 bytes each have been yielded from 30 bytes
C24_Witness ==
    /\ iter.kind = "reports"
    /\ Len(buf) = 30
    /\ Len(iter.items) = 3
    /\ pos = 30
    /\ last.ret.some

\* ------------------------------------------------------------------------
\* Properties of two cursors (checked under SpecCursors)
\* ------------------------------------------------------------------------

RECURSIVE Alone(_, _, _)
\* the results of the calls ops made on a cursor over b that starts at
\* position p and is the only cursor there is
Alone(b, p, ops) ==
    IF ops = <<>> THEN <<>>
    ELSE LET r == Exec(b, p, Head(ops))
         IN  <<[op |-> Head(ops), ret |-> r.ret, pos |-> r.pos]>>
                 \o (IF r.fault THEN <<>> ELSE Alone(b, r.pos, Tail(ops)))

\* the calls made on cursor c
CallsOf(c) == [k \in DOMAIN c.hist |-> c.hist[k].op]

ScalarWrites == {"write_u8", "write_u16", "write_u32", "write_u64", "write_u128"}

WideSliceWrites ==
    {"write_u16_slice", "write_u32_slice", "write_u64_slice", "write_u128_slice"}

\* the size in bytes of the integers an operation writes
WriteWidthOf(op) ==
    CASE op \in {"write_u8", "write_u8_slice"} -> 1
      [] op \in {"write_u16", "write_u16_slice"} -> 2
      [] op \in {"write_u32", "write_u32_slice"} -> 4
      [] op \in {"write_u64", "write_u64_slice"} -> 8
      [] op \in {"write_u128", "write_u128_slice"} -> 16

\* all the bytes of the argument of a write
BytesOf(op, arg) ==
    IF op \in ScalarWrites THEN to_le_bytes(arg, WriteWidthOf(op))
    ELSE IF op = "write_u8_slice" THEN arg
    ELSE MemoryOf(arg, WriteWidthOf(op))

\* C29 (as claimed): every Writer operation either copies all the bytes of
\* its argument into buf[pos .. pos+bytes) inside the buffer and advances
\* pos by that byte count, or returns BufferOverflow and leaves pos and the
\* buffer as they were; none panics.
C29_WriterBoundsSafety ==
    [][LET bytes == BytesOf(last'.op, last'.arg)
       IN  /\ ~panicked'
           /\ Len(buf') = Len(buf)
           /\ \/ /\ last'.ret.ok
                 /\ pos' = pos + Len(bytes)
                 /\ pos' <= Len(buf)
                 /\ \A i \in 1..Len(buf) :
                        buf'[i] = (IF i > pos /\ i <= pos' THEN bytes[i - pos] ELSE buf[i])
              \/ /\ ~last'.ret.ok
                 /\ last'.ret.err = "BufferOverflow"
                 /\ pos' = pos
                 /\ buf' = buf]_vars

\* the Reader operation that reads back what a scalar write wrote
ReadBack(op, b, p) == read_scalar(b, p, WriteWidthOf(op))

\* C30 (as claimed): a write of n bytes succeeds exactly when pos + n <=
\* buf.len, and a value written with write_uN at position p is returned by
\* read_uN from position p of the same buffer, both positions ending at
\* p + width.
C30_WriteReadSymmetry ==
    (last.op \in ScalarWrites \cup {"write_u8_slice"}) =>
        LET n == Len(BytesOf(last.op, last.arg))
        IN  /\ last.ret.ok <=> last.pos0 + n <= Len(buf)
            /\ (last.op \in ScalarWrites /\ last.ret.ok) =>
                   /\ ReadBack(last.op, buf, last.pos0).ret = Some(last.arg)
                   /\ ReadBack(last.op, buf, last.pos0).pos = last.pos0 + WriteWidthOf(last.op)
                   /\ pos = last.pos0 + WriteWidthOf(last.op)

====
